---- MODULE Spec2Model ----
\* Step-sequence executor of core/src/commands/helpers/steps.ts:
\* the drop predicate shouldBeDropped and the loop of executeSteps.
EXTENDS Integers, Sequences, FiniteSets, TLC

\* ---------------------------------------------------------------- bounds

\* longest step list of the executor runs
MaxSteps == 4
\* longest step list of the executor runs with named steps
MaxNamedSteps == 3
\* longest step list the drop predicate is applied to on its own
MaxDropSteps == 5
\* most context lookups in a value handed to the scanner
MaxFindings == 3
\* most calls of the resolver in one run
MaxCalls == 2
\* longest step list of a command run
MaxCommandSteps == 3
\* longest step list of the runs checked for termination
MaxFairSteps == 3
\* longest step list of the runs that follow the operation of every step
MaxRunSteps == 2

\* ---------------------------------------------------------------- values

\* JavaScript `undefined` for a missing numeric index (lodash last of [])
Undefined == -1
\* a step field that is not set
Unset == "unset"
\* a script whose text still holds a template expression
Template == "${t}"
\* a script after template evaluation, and one evaluated to the empty string
ScriptText == "echo"
EmptyText == ""

Modifiers == {Unset, "onSuccess", "onError", "always", "never"}

\* the command line of a command or gardenCommand step, the exec object of an exec step
CommandArgs == "deploy"
ExecSpec == "cmd"

\* StepSpec with its four operation variants
OpStep(name, when, skip, continueOnError, command, gardenCommand, exec, script) ==
  [name |-> name, when |-> when, skip |-> skip, continueOnError |-> continueOnError,
   command |-> command, gardenCommand |-> gardenCommand, exec |-> exec, script |-> script]

\* StepSpec: the fields of a step the executor reads, for a script step
StepSpec(name, when, skip, continueOnError, script) ==
  OpStep(name, when, skip, continueOnError, Unset, Unset, Unset, script)

VARIABLES steps, stepErrors, index, pc, resultSteps, events, storeEntries,
          initSaveLogState, dropped, dropResult, outcomes, contexts,
          before, caller, commandResult,
          templateValue, needs, effects, resolved, history

vars == <<steps, stepErrors, index, pc, resultSteps, events, storeEntries,
          initSaveLogState, dropped, dropResult, outcomes, contexts,
          before, caller, commandResult,
          templateValue, needs, effects, resolved, history>>

\* what the caller of executeSteps holds: the arguments as they were at the
\* call, which command called, and the CommandResult it returns
callVars == <<before, caller, commandResult>>

\* the lazy resolver: the scanned value, the scan result, the calls made on
\* garden by the current call, its return value, the calls completed before
resolverVars == <<templateValue, needs, effects, resolved, history>>

\* everything executeSteps works on, except its position
executorVars == <<steps, stepErrors, index, resultSteps, events, storeEntries,
                  initSaveLogState, dropped, dropResult, outcomes, contexts>>

\* ---------------------------------------------------------------- helpers

\* variant: `name ?? step-${index + 1}`, an empty name is kept
getStepNameNullish(i, name) ==
  IF name = Unset THEN "step-" \o ToString(i + 1) ELSE name

\* `name || step-${index + 1}`
getStepName(i, name) ==
  IF name = Unset \/ name = "" THEN "step-" \o ToString(i + 1) ELSE name

\* the truthiness of an optional field: neither undefined nor the empty string
Truthy(value) == value # Unset /\ value # EmptyText

\* !!(step.command || step.gardenCommand || step.exec || step.script)
hasStepAction(step) ==
  Truthy(step.command) \/ Truthy(step.gardenCommand) \/ Truthy(step.exec) \/ Truthy(step.script)

\* runStep: the runner the step is handed to, the first variant that is set
runStep(step) ==
  IF Truthy(step.command) \/ Truthy(step.gardenCommand) THEN "runStepCommand"
  ELSE IF Truthy(step.exec) THEN "runStepExec"
  ELSE IF Truthy(step.script) THEN "runStepScript"
  ELSE "undefined"

\* the indices of a step list, in order
StepCount(ss) == Cardinality(DOMAIN ss)

RECURSIVE FilterFromAnyError(_, _, _)
\* variant: the filter keeps every step with an errors entry, onError steps too
FilterFromAnyError(ss, errs, i) ==
  IF i >= StepCount(ss) THEN <<>>
  ELSE IF i \in DOMAIN errs
       THEN <<ss[i]>> \o FilterFromAnyError(ss, errs, i + 1)
       ELSE FilterFromAnyError(ss, errs, i + 1)

RECURSIVE FilterFrom(_, _, _)
\* steps.filter((s, index) => s.when !== "onError" && !!stepErrors[index]),
\* as the sequence of the kept steps
FilterFrom(ss, errs, i) ==
  IF i >= StepCount(ss) THEN <<>>
  ELSE IF ss[i].when # "onError" /\ i \in DOMAIN errs
       THEN <<ss[i]>> \o FilterFrom(ss, errs, i + 1)
       ELSE FilterFrom(ss, errs, i + 1)

\* variant: the positions counted from one
MapToIndexOneBased(filtered) == [k \in 1..Len(filtered) |-> k]

\* .map((_, index) => index): the positions in the filtered array
MapToIndex(filtered) == [k \in 1..Len(filtered) |-> k - 1]

\* lodash last
last(arr) == IF Len(arr) = 0 THEN Undefined ELSE arr[Len(arr)]

lastErrorIndex(ss, errs) == last(MapToIndex(FilterFrom(ss, errs, 0)))

\* the onError steps strictly between lastErrorIndex and stepIndex
previousOnErrorStepIndexes(stepIndex, ss, lei) ==
  {i \in DOMAIN ss : ss[i].when = "onError" /\ lei < i /\ i < stepIndex}

\* variant: only never steps are excluded, so an onError step closes the chain
errorBelongsExcludingOnlyNever(stepIndex, ss, lei) ==
  \E prevOnErrorIdx \in previousOnErrorStepIndexes(stepIndex, ss, lei) :
    \E idx \in DOMAIN ss :
      /\ ss[idx].when # "never"
      /\ prevOnErrorIdx < idx
      /\ idx < stepIndex

\* a step that is neither never nor onError lies between prevOnErrorIdx and stepIndex
errorBelongsToPreviousSequence(stepIndex, ss, lei) ==
  \E prevOnErrorIdx \in previousOnErrorStepIndexes(stepIndex, ss, lei) :
    \E idx \in DOMAIN ss :
      /\ ss[idx].when \notin {"never", "onError"}
      /\ prevOnErrorIdx < idx
      /\ idx < stepIndex

\* variant: the results of the always and never checks are swapped
shouldBeDroppedSwapped(stepIndex, ss, errs) ==
  LET step == ss[stepIndex]
      lei == lastErrorIndex(ss, errs)
  IN  IF step.when = "always" THEN TRUE
      ELSE IF step.when = "never" THEN FALSE
      ELSE IF step.when = "onError"
           THEN IF lei = Undefined THEN TRUE
                ELSE errorBelongsToPreviousSequence(stepIndex, ss, lei)
           ELSE lei # Undefined

\* variant: the final test is inverted, normal steps are dropped when nothing failed
shouldBeDroppedInverted(stepIndex, ss, errs) ==
  LET step == ss[stepIndex]
      lei == lastErrorIndex(ss, errs)
  IN  IF step.when = "always" THEN FALSE
      ELSE IF step.when = "never" THEN TRUE
      ELSE IF step.when = "onError"
           THEN IF lei = Undefined THEN TRUE
                ELSE errorBelongsToPreviousSequence(stepIndex, ss, lei)
           ELSE lei = Undefined

shouldBeDropped(stepIndex, ss, errs) ==
  LET step == ss[stepIndex]
      lei == lastErrorIndex(ss, errs)
  IN  IF step.when = "always" THEN FALSE
      ELSE IF step.when = "never" THEN TRUE
      ELSE IF step.when = "onError"
           THEN IF lei = Undefined THEN TRUE
                ELSE errorBelongsToPreviousSequence(stepIndex, ss, lei)
           ELSE lei # Undefined

\* ---------------------------------------------------------------- inputs

\* the step specifications the executor runs draw from: every modifier on a
\* plain script step, the skip and continueOnError flags, a step without operation
StepProfiles ==
  { StepSpec(Unset, w, FALSE, FALSE, Template) : w \in Modifiers }
    \cup { StepSpec(Unset, w, TRUE, FALSE, Template) : w \in {Unset, "always"} }
    \cup { StepSpec(Unset, Unset, FALSE, TRUE, Template),
           StepSpec(Unset, Unset, FALSE, FALSE, Unset) }

StepLists == UNION { [0..(n - 1) -> StepProfiles] : n \in 1..MaxSteps }

\* the step lists the drop predicate is applied to: it reads only `when`, and
\* an unset `when` stands for the default onSuccess as in the unit tests' makeStep()
DropModifiers == {Unset, "onError", "always", "never"}
DropStepLists ==
  UNION { [0..(n - 1) -> { StepSpec(Unset, w, FALSE, FALSE, Template) : w \in DropModifiers }] :
            n \in 1..MaxDropSteps }

\* what a failing operation returns in CommandResult.errors
RunErrors == <<"failed">>
\* what the catch block records for a thrown exception
Exception == <<"exception">>

NoErrors == [i \in {} |-> <<>>]
NoResults == [n \in {} |-> <<>>]

\* StepResult
StepResult(number, outputs, log) == [number |-> number, outputs |-> outputs, log |-> log]

\* no operation has come back yet; no step context has been built yet
NoOutcomes == [i \in {} |-> ""]
NoContexts == [i \in {} |-> <<>>]

\* steps.map((s, i) => getStepName(i, s.name))
allStepNames(ss) == [i \in DOMAIN ss |-> getStepName(i, ss[i].name)]

\* new ErrorContext(...): an entry that throws when it is read
ErrorContext(reason) == [kind |-> "ErrorContext", reason |-> reason]
\* new WorkflowStepContext(result): a readable entry
WorkflowStepContext(result) == [kind |-> "WorkflowStepContext", result |-> result]

\* variant: the pass over allStepNames is left out
CustomCommandStepContextNoLater(names, resolvedSteps, stepName) ==
  [n \in DOMAIN resolvedSteps |-> WorkflowStepContext(resolvedSteps[n])]
    @@ (stepName :> ErrorContext("self"))

\* CustomCommandStepContext.constructor: the `steps` map, filled in three passes,
\* each pass overwriting the entries of the earlier ones
CustomCommandStepContext(names, resolvedSteps, stepName) ==
  LET later == [n \in { names[i] : i \in DOMAIN names } |-> ErrorContext("later")]
      self == (stepName :> ErrorContext("self")) @@ later
  IN  [n \in DOMAIN resolvedSteps |-> WorkflowStepContext(resolvedSteps[n])] @@ self

\* variant: the context is built from the empty steps map
createStepContextEmpty(i, ss, resolvedSteps) ==
  [stepName |-> getStepName(i, ss[i].name),
   allStepNames |-> allStepNames(ss),
   resolvedSteps |-> NoResults,
   steps |-> CustomCommandStepContext(allStepNames(ss), NoResults,
                                      getStepName(i, ss[i].name))]

\* createStepContext({ stepName, allStepNames, resolvedSteps: result.steps })
createStepContext(i, ss, resolvedSteps) ==
  [stepName |-> getStepName(i, ss[i].name),
   allStepNames |-> allStepNames(ss),
   resolvedSteps |-> resolvedSteps,
   steps |-> CustomCommandStepContext(allStepNames(ss), resolvedSteps,
                                      getStepName(i, ss[i].name))]

\* TemplateResolutionNeeds of a value without references
NoNeeds == [providers |-> <<>>, modules |-> <<>>, actions |-> <<>>, hasReferences |-> FALSE]

\* no call was made on garden
NoEffects == [resolveProviders |-> <<>>, getConfigGraph |-> 0, processTasks |-> <<>>]

\* executeSteps is run on its own: no command around it, the arguments are
\* those of the initial state
NoCaller ==
  /\ before = [steps |-> steps, storeEntries |-> storeEntries]
  /\ caller = "none"
  /\ commandResult = <<>>

\* the resolver is not called
ResolverIdle ==
  /\ templateValue = <<>>
  /\ needs = NoNeeds
  /\ effects = NoEffects
  /\ resolved = <<>>
  /\ history = <<>>

\* ---------------------------------------------------------------- executeSteps

Init ==
  /\ steps \in StepLists
  /\ stepErrors = NoErrors
  /\ index = 0
  /\ pc = "loop"
  /\ resultSteps = NoResults
  /\ events = <<>>
  /\ storeEntries \in BOOLEAN
  /\ initSaveLogState = FALSE
  /\ dropped = {}
  /\ dropResult = "none"
  /\ outcomes = NoOutcomes
  /\ contexts = NoContexts
  /\ NoCaller
  /\ ResolverIdle

InLoop == pc = "loop" /\ index < StepCount(steps)

\* variant: the dropped branch goes round the loop without taking the next entry
DropStepNoAdvance ==
  /\ InLoop
  /\ shouldBeDropped(index, steps, stepErrors)
  /\ dropped' = dropped \cup {index}
  /\ UNCHANGED <<steps, stepErrors, index, pc, resultSteps, events, storeEntries,
                 initSaveLogState, dropResult, outcomes, contexts>>
  /\ UNCHANGED <<callVars, resolverVars>>

\* if (shouldBeDropped(index, steps, stepErrors)) continue
DropStep ==
  /\ InLoop
  /\ shouldBeDropped(index, steps, stepErrors)
  /\ dropped' = dropped \cup {index}
  /\ index' = index + 1
  /\ UNCHANGED <<steps, stepErrors, pc, resultSteps, events, storeEntries,
                 initSaveLogState, dropResult, outcomes, contexts>>
  /\ UNCHANGED <<callVars, resolverVars>>

\* variant: the skip branch continues without storing a StepResult
SkipStepNoRecord ==
  /\ InLoop
  /\ ~shouldBeDropped(index, steps, stepErrors)
  /\ steps[index].skip
  /\ events' = Append(events, <<"onStepSkipped", index>>)
  /\ index' = index + 1
  /\ UNCHANGED <<steps, stepErrors, pc, resultSteps, storeEntries, initSaveLogState, dropped,
                 dropResult, outcomes, contexts>>
  /\ UNCHANGED <<callVars, resolverVars>>

\* variant: the skip branch is taken before the drop predicate is asked
SkipStepBeforeDrop ==
  /\ InLoop
  /\ steps[index].skip
  /\ resultSteps' = (getStepName(index, steps[index].name) :> StepResult(index + 1, "{}", ""))
                      @@ resultSteps
  /\ events' = Append(events, <<"onStepSkipped", index>>)
  /\ index' = index + 1
  /\ UNCHANGED <<steps, stepErrors, pc, storeEntries, initSaveLogState, dropped, dropResult, outcomes, contexts>>
  /\ UNCHANGED <<callVars, resolverVars>>

\* if (step.skip) { result.steps[stepName] = {...}; onStepSkipped; continue }
SkipStep ==
  /\ InLoop
  /\ ~shouldBeDropped(index, steps, stepErrors)
  /\ steps[index].skip
  /\ resultSteps' = (getStepName(index, steps[index].name) :> StepResult(index + 1, "{}", ""))
                      @@ resultSteps
  /\ events' = Append(events, <<"onStepSkipped", index>>)
  /\ index' = index + 1
  /\ UNCHANGED <<steps, stepErrors, pc, storeEntries, initSaveLogState, dropped, dropResult, outcomes, contexts>>
  /\ UNCHANGED <<callVars, resolverVars>>

\* variant: the operation is started and not awaited, the loop moves on
StartStepNoAwait ==
  /\ InLoop
  /\ ~shouldBeDropped(index, steps, stepErrors)
  /\ ~steps[index].skip
  /\ hasStepAction(steps[index])
  /\ events' = Append(events, <<"onStepProcessing", index>>)
  /\ initSaveLogState' = storeEntries
  /\ storeEntries' = TRUE
  /\ index' = index + 1
  /\ contexts' = (index :> createStepContext(index, steps, resultSteps)) @@ contexts
  /\ UNCHANGED <<steps, stepErrors, pc, resultSteps, dropped, dropResult, outcomes>>
  /\ UNCHANGED <<callVars, resolverVars>>

\* onStepProcessing, createStepContext, storeEntries = true, then the operation is awaited
StartStep ==
  /\ InLoop
  /\ ~shouldBeDropped(index, steps, stepErrors)
  /\ ~steps[index].skip
  /\ hasStepAction(steps[index])
  /\ events' = Append(events, <<"onStepProcessing", index>>)
  /\ initSaveLogState' = storeEntries
  /\ storeEntries' = TRUE
  /\ pc' = "running"
  /\ contexts' = (index :> createStepContext(index, steps, resultSteps)) @@ contexts
  /\ UNCHANGED <<steps, stepErrors, index, resultSteps, dropped, dropResult, outcomes>>
  /\ UNCHANGED <<callVars, resolverVars>>

\* variant: a step without operation gets an errors entry and the loop goes on
MissingActionRecorded ==
  /\ InLoop
  /\ ~shouldBeDropped(index, steps, stepErrors)
  /\ ~steps[index].skip
  /\ ~hasStepAction(steps[index])
  /\ events' = events \o << <<"onStepProcessing", index>>, <<"onStepError", index>> >>
  /\ stepErrors' = (index :> Exception) @@ stepErrors
  /\ index' = index + 1
  /\ contexts' = (index :> createStepContext(index, steps, resultSteps)) @@ contexts
  /\ UNCHANGED <<steps, pc, resultSteps, storeEntries, initSaveLogState, dropped, dropResult, outcomes>>
  /\ UNCHANGED <<callVars, resolverVars>>

\* if (!hasStepAction(step)) { onStepError; throw new InternalError }
MissingAction ==
  /\ InLoop
  /\ ~shouldBeDropped(index, steps, stepErrors)
  /\ ~steps[index].skip
  /\ ~hasStepAction(steps[index])
  /\ events' = events \o << <<"onStepProcessing", index>>, <<"onStepError", index>> >>
  /\ initSaveLogState' = storeEntries
  /\ storeEntries' = TRUE
  /\ pc' = "thrown"
  /\ contexts' = (index :> createStepContext(index, steps, resultSteps)) @@ contexts
  /\ UNCHANGED <<steps, stepErrors, index, resultSteps, dropped, dropResult, outcomes>>
  /\ UNCHANGED <<callVars, resolverVars>>

\* step.script = deepEvaluate(step.script, ...)
resolveStepTemplates(ss, i, text) == [ss EXCEPT ![i].script = text]

\* variant: the catch block continues with the next step instead of breaking
CatchAndContinue ==
  /\ events' = Append(events, <<"onStepError", index>>)
  /\ stepErrors' = (index :> Exception) @@ stepErrors
  /\ index' = index + 1
  /\ pc' = "loop"
  /\ UNCHANGED <<resultSteps, storeEntries, initSaveLogState, dropped, dropResult, contexts>>
  /\ UNCHANGED <<callVars, resolverVars>>

\* catch (rawErr) { onStepError; stepErrors[index] = [err]; break }  then  return result
CatchAndBreak ==
  /\ events' = Append(events, <<"onStepError", index>>)
  /\ stepErrors' = (index :> Exception) @@ stepErrors
  /\ pc' = "returned"
  /\ UNCHANGED <<index, resultSteps, storeEntries, initSaveLogState, dropped, dropResult, contexts>>
  /\ UNCHANGED <<callVars, resolverVars>>

\* resolveStepTemplates throws (a template that cannot be evaluated)
ResolveThrows ==
  /\ pc = "running"
  /\ steps[index].script = Template
  /\ UNCHANGED steps
  /\ outcomes' = (index :> "resolveThrows") @@ outcomes
  /\ CatchAndBreak

\* runStep throws after the templates were resolved
RunThrows ==
  /\ pc = "running"
  /\ steps' = resolveStepTemplates(steps, index, ScriptText)
  /\ outcomes' = (index :> "runThrows") @@ outcomes
  /\ CatchAndBreak

\* the script evaluates to the empty string: runStep returns undefined,
\* if (stepResult === undefined) throw new InternalError
RunUndefined ==
  /\ pc = "running"
  /\ steps[index].script = Template
  /\ steps' = resolveStepTemplates(steps, index, EmptyText)
  /\ pc' = "thrown"
  /\ outcomes' = (index :> "undefined") @@ outcomes
  /\ UNCHANGED <<stepErrors, index, resultSteps, events, storeEntries, initSaveLogState,
                 dropped, dropResult, contexts>>
  /\ UNCHANGED <<callVars, resolverVars>>

\* variant: result.steps is rebuilt with the new entry alone
RecordResultReplacing ==
  /\ steps' = resolveStepTemplates(steps, index, ScriptText)
  /\ resultSteps' = (getStepName(index, steps[index].name) :> StepResult(index + 1, "out", "log"))
  /\ storeEntries' = initSaveLogState
  /\ index' = index + 1
  /\ pc' = "loop"
  /\ UNCHANGED <<initSaveLogState, dropped, dropResult, contexts>>
  /\ UNCHANGED <<callVars, resolverVars>>

\* variant: the StepResult carries the 0-based index
RecordResultZeroBased ==
  /\ steps' = resolveStepTemplates(steps, index, ScriptText)
  /\ resultSteps' = (getStepName(index, steps[index].name) :> StepResult(index, "out", "log"))
                      @@ resultSteps
  /\ storeEntries' = initSaveLogState
  /\ index' = index + 1
  /\ pc' = "loop"
  /\ UNCHANGED <<initSaveLogState, dropped, dropResult, contexts>>
  /\ UNCHANGED <<callVars, resolverVars>>

\* result.steps[stepName] = {...}; storeEntries = initSaveLogState
RecordResult ==
  /\ steps' = resolveStepTemplates(steps, index, ScriptText)
  /\ resultSteps' = (getStepName(index, steps[index].name) :> StepResult(index + 1, "out", "log"))
                      @@ resultSteps
  /\ storeEntries' = initSaveLogState
  /\ index' = index + 1
  /\ pc' = "loop"
  /\ UNCHANGED <<initSaveLogState, dropped, dropResult, contexts>>
  /\ UNCHANGED <<callVars, resolverVars>>

\* variant: the continueOnError test is inverted
StepFailsInverted ==
  /\ pc = "running"
  /\ RecordResult
  /\ outcomes' = (index :> "errors") @@ outcomes
  /\ events' = Append(events, <<"onStepError", index>>)
  /\ stepErrors' = IF steps[index].continueOnError
                   THEN (index :> RunErrors) @@ stepErrors
                   ELSE stepErrors

\* the operation returns a result with errors
StepFails ==
  /\ pc = "running"
  /\ RecordResult
  /\ outcomes' = (index :> "errors") @@ outcomes
  /\ events' = Append(events, <<"onStepError", index>>)
  /\ stepErrors' = IF ~steps[index].continueOnError
                   THEN (index :> RunErrors) @@ stepErrors
                   ELSE stepErrors

\* the operation returns a result without errors
StepSucceeds ==
  /\ pc = "running"
  /\ RecordResult
  /\ outcomes' = (index :> "ok") @@ outcomes
  /\ events' = Append(events, <<"onStepComplete", index>>)
  /\ UNCHANGED stepErrors

\* the for loop is exhausted: return result
Return ==
  /\ pc = "loop"
  /\ index = StepCount(steps)
  /\ pc' = "returned"
  /\ UNCHANGED <<steps, stepErrors, index, resultSteps, events, storeEntries,
                 initSaveLogState, dropped, dropResult, outcomes, contexts>>
  /\ UNCHANGED <<callVars, resolverVars>>

Next ==
  \/ DropStep
  \/ SkipStep
  \/ StartStep
  \/ MissingAction
  \/ ResolveThrows
  \/ RunThrows
  \/ RunUndefined
  \/ StepFails
  \/ StepSucceeds
  \/ Return

Spec == Init /\ [][Next]_vars

\* executeSteps on the step lists of up to MaxFairSteps steps
FairStepLists == UNION { [0..(n - 1) -> StepProfiles] : n \in 1..MaxFairSteps }

InitFair ==
  /\ steps \in FairStepLists
  /\ stepErrors = NoErrors
  /\ index = 0
  /\ pc = "loop"
  /\ resultSteps = NoResults
  /\ events = <<>>
  /\ storeEntries = FALSE
  /\ initSaveLogState = FALSE
  /\ dropped = {}
  /\ dropResult = "none"
  /\ outcomes = NoOutcomes
  /\ contexts = NoContexts
  /\ NoCaller
  /\ ResolverIdle

\* the loop body is synchronous between two awaits and the event loop resumes
\* the function when the awaited operation has completed: a step of the loop
\* that can be taken is taken
SpecFair == InitFair /\ [][Next]_vars /\ WF_vars(Next)

\* ---------------------------------------------------------------- executeSteps on named steps

\* the names given to steps: none, the empty string, a name, and a name that
\* looks like the default name of the second step
StepNames == {Unset, "", "a", "step-2"}

\* named steps: plain, always and skipped script steps, and a step without operation
NamedProfiles ==
  { StepSpec(n, w, FALSE, FALSE, Template) : n \in StepNames, w \in {Unset, "always"} }
    \cup { StepSpec(n, Unset, TRUE, FALSE, Template) : n \in StepNames }
    \cup { StepSpec(Unset, Unset, FALSE, FALSE, Unset) }

NamedStepLists == UNION { [0..(n - 1) -> NamedProfiles] : n \in 1..MaxNamedSteps }

InitNames ==
  /\ steps \in NamedStepLists
  /\ stepErrors = NoErrors
  /\ index = 0
  /\ pc = "loop"
  /\ resultSteps = NoResults
  /\ events = <<>>
  /\ storeEntries = FALSE
  /\ initSaveLogState = FALSE
  /\ dropped = {}
  /\ dropResult = "none"
  /\ outcomes = NoOutcomes
  /\ contexts = NoContexts
  /\ NoCaller
  /\ ResolverIdle

SpecNames == InitNames /\ [][Next]_vars

\* ---------------------------------------------------------------- shouldBeDropped on its own

InitDrop ==
  /\ steps \in DropStepLists
  /\ stepErrors \in UNION { [S -> {RunErrors}] : S \in SUBSET (DOMAIN steps) }
  /\ index \in DOMAIN steps
  /\ pc = "call"
  /\ resultSteps = NoResults
  /\ events = <<>>
  /\ storeEntries = FALSE
  /\ initSaveLogState = FALSE
  /\ dropped = {}
  /\ dropResult = "none"
  /\ outcomes = NoOutcomes
  /\ contexts = NoContexts
  /\ NoCaller
  /\ ResolverIdle

\* one call shouldBeDropped(index, steps, stepErrors)
CallShouldBeDropped ==
  /\ pc = "call"
  /\ dropResult' = shouldBeDropped(index, steps, stepErrors)
  /\ pc' = "called"
  /\ UNCHANGED <<steps, stepErrors, index, resultSteps, events, storeEntries,
                 initSaveLogState, dropped, outcomes, contexts>>
  /\ UNCHANGED <<callVars, resolverVars>>

NextDrop == CallShouldBeDropped

SpecDrop == InitDrop /\ [][NextDrop]_vars

\* ---------------------------------------------------------------- scanTemplateReferences

\* the key paths of the context lookups a scanned value can hold: providers,
\* a module, two actions by a static and by a runtime output key, a legacy
\* runtime reference, lookups in namespaces that need no resolution, a
\* lookup without a second segment and one whose second segment is empty
KeyPaths ==
  { <<"providers", "p", "outputs", "x">>,
    <<"providers", "q", "outputs", "x">>,
    <<"modules", "m", "path">>,
    <<"actions", "build", "api", "outputs", "version">>,
    <<"actions", "build", "api", "outputs", "digest">>,
    <<"actions", "deploy", "db", "outputs", "release">>,
    <<"actions", "deploy", "db", "outputs", "ip">>,
    <<"runtime", "services", "db", "outputs", "ip">>,
    <<"args", "x">>,
    <<"steps", "a", "outputs", "x">>,
    <<"providers", "">>,
    <<"var">> }

\* the lookups the generator yields for a value, in order
TemplateValues == UNION { [1..n -> KeyPaths] : n \in 0..MaxFindings }

\* the segments of a key path from position k on
Rest(keyPath, k) == [j \in 1..(Len(keyPath) - k + 1) |-> keyPath[j + k - 1]]

\* ActionTemplateReference
ActionReference(kind, name, keyPath) == [kind |-> kind, name |-> name, keyPath |-> keyPath]

\* extractActionReference: ${actions.<kind>.<name>.<key path>}
extractActionReference(keyPath) ==
  ActionReference(IF keyPath[2] = "build" THEN "Build" ELSE "Deploy", keyPath[3], Rest(keyPath, 4))

\* extractRuntimeReference: ${runtime.services.<name>.<key path>} names a Deploy
extractRuntimeReference(keyPath) ==
  ActionReference("Deploy", keyPath[3], Rest(keyPath, 4))

\* const refName = keyPath[1]; if (!refName || !isString(refName)) continue
hasRefName(keyPath) == Len(keyPath) >= 2 /\ keyPath[2] # ""

\* variant: references through the legacy runtime namespace are not collected
ScannedActionsNoRuntime(findings) ==
  LET found == SelectSeq(findings, LAMBDA keyPath :
                 hasRefName(keyPath) /\ keyPath[1] = "actions")
  IN  [k \in 1..Len(found) |-> extractActionReference(found[k])]

\* the actions array: one push per finding in the runtime or actions namespace
ScannedActions(findings) ==
  LET found == SelectSeq(findings, LAMBDA keyPath :
                 hasRefName(keyPath) /\ keyPath[1] \in {"runtime", "actions"})
  IN  [k \in 1..Len(found) |->
         IF found[k][1] = "runtime" THEN extractRuntimeReference(found[k])
         ELSE extractActionReference(found[k])]

\* the providers (modules) array: one push of the second segment per finding
ScannedNames(findings, refType) ==
  LET found == SelectSeq(findings, LAMBDA keyPath :
                 hasRefName(keyPath) /\ keyPath[1] = refType)
  IN  [k \in 1..Len(found) |-> found[k][2]]

\* scanTemplateReferences(value, context)
scanTemplateReferences(findings) ==
  LET providers == ScannedNames(findings, "providers")
      modules == ScannedNames(findings, "modules")
      actions == ScannedActions(findings)
  IN  [providers |-> providers, modules |-> modules, actions |-> actions,
       hasReferences |-> Len(providers) > 0 \/ Len(modules) > 0 \/ Len(actions) > 0]

\* ---------------------------------------------------------------- resolveTemplateNeeds

\* the providers the project configures
ConfiguredProviders == {"p", "q"}

\* garden.resolveProviders({ log }): the call passes no names, so the map
\* holds every configured provider
resolveProviders(configured) == configured

\* graph.getActionByRef(ref): the Build actions of the project are of type
\* container, the Deploy actions of type kubernetes
getActionByRef(ref) ==
  [kind |-> ref.kind, name |-> ref.name,
   type |-> IF ref.kind = "Build" THEN "container" ELSE "kubernetes"]

\* getStaticOutputKeys(actionTypes, kind, type): the registry of the output
\* keys known without running the action
getStaticOutputKeys(kind, type) ==
  IF kind = "Build" /\ type = "container" THEN {"version"}
  ELSE IF kind = "Deploy" /\ type = "kubernetes" THEN {"release"}
  ELSE {}

\* actionRefNeedsExecution: the key path names an output that is not in the
\* static keys of the action's (kind, type)
actionRefNeedsExecution(refKeyPath, refActionKind, refStaticOutputKeys) ==
  ~(Len(refKeyPath) >= 2 /\ refKeyPath[1] = "outputs" /\ refKeyPath[2] \in refStaticOutputKeys)

\* the test of the categorizing loop for one ref
needsExecuted(ref) ==
  actionRefNeedsExecution(ref.keyPath, ref.kind,
                          getStaticOutputKeys(ref.kind, getActionByRef(ref).type))

\* variant: the two branches of the categorizing loop are swapped
actionsToExecuteSwapped(refs) == SelectSeq(refs, LAMBDA ref : ~needsExecuted(ref))

\* for (const ref of needs.actions) { if (needsExecuted) actionsToExecute.push(ref) ... }
actionsToExecute(refs) == SelectSeq(refs, LAMBDA ref : needsExecuted(ref))

\* ... else actionsToResolve.push(ref)
actionsToResolve(refs) == SelectSeq(refs, LAMBDA ref : ~needsExecuted(ref))

\* action.getExecuteTask(baseParams), action.getResolveTask(baseParams)
Task(type, action) == [type |-> type, kind |-> action.kind, name |-> action.name]

\* variant: the tasks of an action that already has a task are left out
allTasksOncePerAction(refs) ==
  LET all == [k \in 1..Len(actionsToExecute(refs)) |->
                Task("execute", getActionByRef(actionsToExecute(refs)[k]))]
               \o [k \in 1..Len(actionsToResolve(refs)) |->
                     Task("resolve", getActionByRef(actionsToResolve(refs)[k]))]
      first(k) == \A j \in 1..(k - 1) :
                    all[j].kind # all[k].kind \/ all[j].name # all[k].name
      keep == {k \in 1..Len(all) : first(k)}
      nth(n) == CHOOSE k \in keep : Cardinality({j \in keep : j < k}) = n - 1
  IN  [n \in 1..Cardinality(keep) |-> all[nth(n)]]

\* const allTasks = [...executeTasks, ...resolveTasks]
allTasks(refs) ==
  [k \in 1..Len(actionsToExecute(refs)) |->
     Task("execute", getActionByRef(actionsToExecute(refs)[k]))]
    \o [k \in 1..Len(actionsToResolve(refs)) |->
          Task("resolve", getActionByRef(actionsToResolve(refs)[k]))]

\* variant: only action references make the graph necessary
needsGraphActionsOnly(n) == Len(n.actions) > 0

\* const needsGraph = needs.actions.length > 0 || needs.modules.length > 0
needsGraph(n) == Len(n.actions) > 0 \/ Len(n.modules) > 0

\* the providers map the call holds after line 152
ProvidersOf(eff) ==
  IF eff.resolveProviders = <<>> THEN {} ELSE eff.resolveProviders[Len(eff.resolveProviders)]

\* graph.getModules({ names: needs.modules })
getModules(names) == { names[k] : k \in 1..Len(names) }

\* the executedActions collected from the results of the processed tasks
executedActions(results) == [k \in 1..Len(results) |-> [kind |-> results[k].kind, name |-> results[k].name]]

\* ResolvedTemplateNeeds
ResolvedTemplateNeeds(graph, providers, modules, results) ==
  [graph |-> graph, providers |-> providers, modules |-> modules, results |-> results,
   executedActions |-> executedActions(results)]

\* what a completed call leaves in the record of the run
CallSummary ==
  [hasReferences |-> needs.hasReferences,
   effects |-> [resolveProviders |-> Len(effects.resolveProviders),
                getConfigGraph |-> effects.getConfigGraph,
                processTasks |-> Len(effects.processTasks)],
   returned |-> resolved # <<>>]

InitResolve ==
  /\ steps = <<>>
  /\ stepErrors = NoErrors
  /\ index = 0
  /\ pc = "idle"
  /\ resultSteps = NoResults
  /\ events = <<>>
  /\ storeEntries = FALSE
  /\ initSaveLogState = FALSE
  /\ dropped = {}
  /\ dropResult = "none"
  /\ outcomes = NoOutcomes
  /\ contexts = NoContexts
  /\ NoCaller
  /\ ResolverIdle

\* resolveTemplateNeeds(garden, log, scanTemplateReferences(value, context))
CallResolveTemplateNeeds ==
  /\ pc = "idle"
  /\ Len(history) < MaxCalls
  /\ \E value \in TemplateValues :
       /\ templateValue' = value
       /\ needs' = scanTemplateReferences(value)
  /\ effects' = NoEffects
  /\ resolved' = <<>>
  /\ pc' = "resolveProviders"
  /\ UNCHANGED <<executorVars, callVars, history>>

\* variant: the providers are resolved whatever the scan found
ResolveProvidersAlways ==
  /\ pc = "resolveProviders"
  /\ effects' = [effects EXCEPT !.resolveProviders =
                   Append(@, resolveProviders(ConfiguredProviders))]
  /\ pc' = "needsGraph"
  /\ UNCHANGED <<executorVars, callVars, templateValue, needs, resolved, history>>

\* const providers = needs.providers.length > 0 ? await garden.resolveProviders({ log }) : {}
ResolveProviders ==
  /\ pc = "resolveProviders"
  /\ effects' = IF Len(needs.providers) > 0
                THEN [effects EXCEPT !.resolveProviders =
                        Append(@, resolveProviders(ConfiguredProviders))]
                ELSE effects
  /\ pc' = "needsGraph"
  /\ UNCHANGED <<executorVars, callVars, templateValue, needs, resolved, history>>

\* if (!needsGraph) return { providers, modules: [], results: new GraphResults([]), executedActions: [] }
ReturnWithoutGraph ==
  /\ pc = "needsGraph"
  /\ ~needsGraph(needs)
  /\ resolved' = <<ResolvedTemplateNeeds(FALSE, ProvidersOf(effects), {}, <<>>)>>
  /\ pc' = "resolved"
  /\ UNCHANGED <<executorVars, callVars, templateValue, needs, effects, history>>

\* const graph = await garden.getConfigGraph({ log, emit: false })
GetConfigGraph ==
  /\ pc = "needsGraph"
  /\ needsGraph(needs)
  /\ effects' = [effects EXCEPT !.getConfigGraph = @ + 1]
  /\ pc' = "tasks"
  /\ UNCHANGED <<executorVars, callVars, templateValue, needs, resolved, history>>

\* variant: processTasks is called with the empty task list too
SkipProcessTasksSubmitsEmpty ==
  /\ pc = "tasks"
  /\ Len(allTasks(needs.actions)) = 0
  /\ effects' = [effects EXCEPT !.processTasks =
                   Append(@, [tasks |-> <<>>, throwOnError |-> TRUE])]
  /\ resolved' = <<ResolvedTemplateNeeds(TRUE, ProvidersOf(effects), getModules(needs.modules), <<>>)>>
  /\ pc' = "resolved"
  /\ UNCHANGED <<executorVars, callVars, templateValue, needs, history>>

\* allTasks is empty: no submission, the results are new GraphResults([])
SkipProcessTasks ==
  /\ pc = "tasks"
  /\ Len(allTasks(needs.actions)) = 0
  /\ resolved' = <<ResolvedTemplateNeeds(TRUE, ProvidersOf(effects), getModules(needs.modules), <<>>)>>
  /\ pc' = "resolved"
  /\ UNCHANGED <<executorVars, callVars, templateValue, needs, effects, history>>

\* await garden.processTasks({ tasks: allTasks, throwOnError: true }) gives the
\* results, from which the executed and resolved actions are collected
ProcessTasksSucceeds ==
  /\ pc = "tasks"
  /\ Len(allTasks(needs.actions)) > 0
  /\ effects' = [effects EXCEPT !.processTasks =
                   Append(@, [tasks |-> allTasks(needs.actions), throwOnError |-> TRUE])]
  /\ resolved' = <<ResolvedTemplateNeeds(TRUE, ProvidersOf(effects), getModules(needs.modules),
                                         allTasks(needs.actions))>>
  /\ pc' = "resolved"
  /\ UNCHANGED <<executorVars, callVars, templateValue, needs, history>>

\* a task fails: processTasks throws and resolveTemplateNeeds rejects
ProcessTasksThrows ==
  /\ pc = "tasks"
  /\ Len(allTasks(needs.actions)) > 0
  /\ effects' = [effects EXCEPT !.processTasks =
                   Append(@, [tasks |-> allTasks(needs.actions), throwOnError |-> TRUE])]
  /\ pc' = "rejected"
  /\ UNCHANGED <<executorVars, callVars, templateValue, needs, resolved, history>>

\* the call is over, its arguments and locals are gone, its caller may call again
ResolverReturns ==
  /\ pc \in {"resolved", "rejected"}
  /\ caller = "none"
  /\ history' = Append(history, CallSummary)
  /\ pc' = "idle"
  /\ templateValue' = <<>>
  /\ needs' = NoNeeds
  /\ effects' = NoEffects
  /\ resolved' = <<>>
  /\ UNCHANGED <<executorVars, callVars>>

\* the steps of resolveTemplateNeeds
ResolverNext ==
  \/ ResolveProviders
  \/ ReturnWithoutGraph
  \/ GetConfigGraph
  \/ SkipProcessTasks
  \/ ProcessTasksSucceeds
  \/ ProcessTasksThrows

NextResolve ==
  \/ CallResolveTemplateNeeds
  \/ ResolverNext
  \/ ResolverReturns

SpecResolve == InitResolve /\ [][NextResolve]_vars

\* ---------------------------------------------------------------- the commands that call executeSteps

\* scripts whose templates look up an action output, a provider and a module
ActionTemplate == "${actions.build.api.outputs.digest}"
DeployTemplate == "${actions.deploy.db.outputs.ip}"
ProviderTemplate == "${providers.p.outputs.x}"
ModuleTemplate == "${modules.m.path}"

\* the context lookups the generator finds in one script
ScriptLookups(script) ==
  IF script = ActionTemplate THEN << <<"actions", "build", "api", "outputs", "digest">> >>
  ELSE IF script = DeployTemplate THEN << <<"actions", "deploy", "db", "outputs", "ip">> >>
  ELSE IF script = ProviderTemplate THEN << <<"providers", "p", "outputs", "x">> >>
  ELSE IF script = ModuleTemplate THEN << <<"modules", "m", "path">> >>
  ELSE IF script = Template THEN << <<"t">> >>
  ELSE <<>>

RECURSIVE LookupsFrom(_, _)
\* the lookups found in templateableFields.steps, step by step
LookupsFrom(ss, i) ==
  IF i >= StepCount(ss) THEN <<>>
  ELSE ScriptLookups(ss[i].script) \o LookupsFrom(ss, i + 1)

\* the steps of a command: a plain step, steps that look up an action, a
\* provider and a module, a dropped and a skipped one among them, an onError
\* step and a step without operation
CommandProfiles ==
  { StepSpec(Unset, Unset, FALSE, FALSE, Template),
    StepSpec(Unset, Unset, FALSE, FALSE, ActionTemplate),
    StepSpec(Unset, "never", FALSE, FALSE, DeployTemplate),
    StepSpec(Unset, Unset, TRUE, FALSE, ProviderTemplate),
    StepSpec(Unset, Unset, FALSE, TRUE, ModuleTemplate),
    StepSpec(Unset, "onError", FALSE, FALSE, Template),
    StepSpec(Unset, Unset, FALSE, FALSE, Unset) }

CommandStepLists == UNION { [0..(n - 1) -> CommandProfiles] : n \in 1..MaxCommandSteps }

\* GardenError
GardenError(message, wrappedErrors) == [message |-> message, wrappedErrors |-> wrappedErrors]

RECURSIVE FlattenFrom(_, _, _)
\* flatten(Object.values(stepsResult.errors)): the lists in the order of the indices
FlattenFrom(errs, i, n) ==
  IF i >= n THEN <<>>
  ELSE (IF i \in DOMAIN errs THEN errs[i] ELSE <<>>) \o FlattenFrom(errs, i + 1, n)

\* CommandResult
CommandResult(result, errors) == [result |-> result, errors |-> errors]

InitCommand ==
  /\ steps \in CommandStepLists
  /\ stepErrors = NoErrors
  /\ index = 0
  /\ pc = "action"
  /\ resultSteps = NoResults
  /\ events = <<>>
  /\ storeEntries = FALSE
  /\ initSaveLogState = FALSE
  /\ dropped = {}
  /\ dropResult = "none"
  /\ outcomes = NoOutcomes
  /\ contexts = NoContexts
  /\ before = [steps |-> steps, storeEntries |-> storeEntries]
  /\ caller \in {"workflow", "custom"}
  /\ commandResult = <<>>
  /\ ResolverIdle

\* WorkflowCommand.action up to its call of executeSteps
WorkflowCommandAction ==
  /\ pc = "action"
  /\ caller = "workflow"
  /\ pc' = "loop"
  /\ UNCHANGED <<executorVars, callVars, resolverVars>>

\* variant: the scan result is not acted on, no lazy resolution takes place
ResolveExpandedContextNoResolve ==
  /\ pc = "action"
  /\ caller = "custom"
  /\ templateValue' = LookupsFrom(steps, 0)
  /\ needs' = scanTemplateReferences(LookupsFrom(steps, 0))
  /\ pc' = "loop"
  /\ UNCHANGED <<executorVars, callVars, effects, resolved, history>>

\* CustomCommandWrapper.action calls resolveExpandedContext: the raw fields are
\* scanned, if (!needs.hasReferences) return {}, else resolveTemplateNeeds
ResolveExpandedContext ==
  /\ pc = "action"
  /\ caller = "custom"
  /\ templateValue' = LookupsFrom(steps, 0)
  /\ needs' = scanTemplateReferences(LookupsFrom(steps, 0))
  /\ pc' = IF scanTemplateReferences(LookupsFrom(steps, 0)).hasReferences
           THEN "resolveProviders" ELSE "loop"
  /\ UNCHANGED <<executorVars, callVars, effects, resolved, history>>

\* variant: a rejected resolution is caught and the steps are run all the same
CustomCommandExecuteStepsCatching ==
  /\ pc \in {"resolved", "rejected"}
  /\ caller = "custom"
  /\ history' = Append(history, CallSummary)
  /\ pc' = "loop"
  /\ UNCHANGED <<executorVars, callVars, templateValue, needs, effects, resolved>>

\* resolveTemplateNeeds came back: the command contexts are built from its
\* result and executeSteps is called
CustomCommandExecuteSteps ==
  /\ pc = "resolved"
  /\ caller = "custom"
  /\ history' = Append(history, CallSummary)
  /\ pc' = "loop"
  /\ UNCHANGED <<executorVars, callVars, templateValue, needs, effects, resolved>>

\* WorkflowCommand.action after executeSteps: if (size(stepsResult.errors) > 0)
\* return { result, errors: finalError }, else return { result }
WorkflowCommandReturn ==
  /\ pc = "returned"
  /\ caller = "workflow"
  /\ \E output \in BOOLEAN :
       LET errors == FlattenFrom(stepErrors, 0, StepCount(steps))
           finalError == IF output
                         THEN [k \in 1..Len(errors) |-> GardenError(errors[k], <<>>)]
                         ELSE << GardenError("workflow failed", errors) >>
       IN  commandResult' = << CommandResult(resultSteps,
                                 IF Cardinality(DOMAIN stepErrors) > 0 THEN finalError ELSE <<>>) >>
  /\ pc' = "done"
  /\ UNCHANGED <<executorVars, before, caller, resolverVars>>

\* CustomCommandWrapper.action after executeSteps: const errors = [];
\* result.steps = stepsResult.steps; return { result, errors }
CustomCommandReturn ==
  /\ pc = "returned"
  /\ caller = "custom"
  /\ commandResult' = << CommandResult(resultSteps, <<>>) >>
  /\ pc' = "done"
  /\ UNCHANGED <<executorVars, before, caller, resolverVars>>

NextCommand ==
  \/ WorkflowCommandAction
  \/ ResolveExpandedContext
  \/ ResolverNext
  \/ CustomCommandExecuteSteps
  \/ Next
  \/ WorkflowCommandReturn
  \/ CustomCommandReturn

SpecCommand == InitCommand /\ [][NextCommand]_vars

\* ---------------------------------------------------------------- the operation of a step

\* the exit codes of a child process
ExitCodes == {0, 1, 2}

\* how `await runScript(...)` completes: it returns on exit code 0, throws a
\* ChildProcessError carrying the exit code otherwise, or throws another error
RunScriptCompletions ==
  { [threw |-> "no", exitCode |-> 0] }
    \cup { [threw |-> "ChildProcessError", exitCode |-> c] : c \in ExitCodes \ {0} }
    \cup { [threw |-> "Error", exitCode |-> Undefined] }

\* how the command of a command step completes: pickCommand finds none, or
\* command.action returns a CommandResult with or without errors
CommandCompletions ==
  { [found |-> FALSE, errors |-> <<>>],
    [found |-> TRUE, errors |-> <<>>],
    [found |-> TRUE, errors |-> <<"failed">>] }

\* what a runner hands back to executeSteps: an exception or a CommandResult
Thrown == [threw |-> TRUE, result |-> "{}", errors |-> <<>>]
Returned(result, errors) == [threw |-> FALSE, result |-> result, errors |-> errors]

\* runStepCommand
runStepCommand(completion) ==
  IF ~completion.found THEN Thrown
  ELSE Returned([command |-> CommandArgs], completion.errors)

\* variant: execa is called without reject: false, a non-zero exit rejects
runStepExecRejecting(exitCode) ==
  IF exitCode # 0 THEN Thrown
  ELSE Returned([command |-> ExecSpec, exitCode |-> exitCode], <<>>)

\* runStepExec: execa with reject: false, then if (res.exitCode !== 0)
runStepExec(exitCode) ==
  IF exitCode # 0
  THEN Returned([command |-> ExecSpec, exitCode |-> exitCode], <<"RuntimeError">>)
  ELSE Returned([command |-> ExecSpec, exitCode |-> exitCode], <<>>)

\* runStepScript: try { runScript } catch (err) { rethrow unless ChildProcessError }
runStepScript(completion) ==
  IF completion.threw = "no"
  THEN Returned([exitCode |-> completion.exitCode, stdout |-> "out", stderr |-> ""], <<>>)
  ELSE IF completion.threw # "ChildProcessError" THEN Thrown
  ELSE Returned([exitCode |-> completion.exitCode, stdout |-> "out", stderr |-> "err"],
                <<"WorkflowScriptError">>)

\* what the run of a step was: the runner, the exit code of its child process
\* (Undefined when there is none) and whether the runner threw
RunOutcome(runner, exitCode, threw) == [runner |-> runner, exitCode |-> exitCode, threw |-> threw]

\* the rest of the loop body after `stepResult = await runStep(stepParams)`:
\* the catch block for an exception, otherwise the StepResult, the callbacks
\* and the errors entry. The steps of these runs hold no template, so
\* resolveStepTemplates leaves them as they are
HandleStepResult(stepResult) ==
  IF stepResult.threw
  THEN CatchAndBreak /\ UNCHANGED steps
  ELSE /\ resultSteps' = (getStepName(index, steps[index].name)
                            :> StepResult(index + 1, stepResult.result, "log")) @@ resultSteps
       /\ storeEntries' = initSaveLogState
       /\ events' = Append(events, IF stepResult.errors # <<>>
                                   THEN <<"onStepError", index>>
                                   ELSE <<"onStepComplete", index>>)
       /\ stepErrors' = IF stepResult.errors # <<>> /\ ~steps[index].continueOnError
                        THEN (index :> stepResult.errors) @@ stepErrors
                        ELSE stepErrors
       /\ index' = index + 1
       /\ pc' = "loop"
       /\ UNCHANGED <<steps, initSaveLogState, dropped, dropResult, contexts>>
       /\ UNCHANGED <<callVars, resolverVars>>

\* if (step.command || step.gardenCommand) return await runStepCommand(params)
RunStepCommand ==
  /\ pc = "running"
  /\ runStep(steps[index]) = "runStepCommand"
  /\ \E completion \in CommandCompletions :
       /\ outcomes' = (index :> RunOutcome("runStepCommand", Undefined,
                                           runStepCommand(completion).threw)) @@ outcomes
       /\ HandleStepResult(runStepCommand(completion))

\* else if (step.exec) return await runStepExec(params)
RunStepExec ==
  /\ pc = "running"
  /\ runStep(steps[index]) = "runStepExec"
  /\ \E exitCode \in ExitCodes :
       /\ outcomes' = (index :> RunOutcome("runStepExec", exitCode,
                                           runStepExec(exitCode).threw)) @@ outcomes
       /\ HandleStepResult(runStepExec(exitCode))

\* else if (step.script) return await runStepScript(params)
RunStepScript ==
  /\ pc = "running"
  /\ runStep(steps[index]) = "runStepScript"
  /\ \E completion \in RunScriptCompletions :
       /\ outcomes' = (index :> RunOutcome("runStepScript", completion.exitCode,
                                           runStepScript(completion).threw)) @@ outcomes
       /\ HandleStepResult(runStepScript(completion))

\* steps: joi.any()
joiAny(value) == TRUE

\* the operation variants of a step: none, each one alone, and several at once
Operations ==
  { <<Unset, Unset, Unset, Unset>>,
    <<CommandArgs, Unset, Unset, Unset>>,
    <<Unset, CommandArgs, Unset, Unset>>,
    <<Unset, Unset, ExecSpec, Unset>>,
    <<Unset, Unset, Unset, ScriptText>>,
    <<Unset, Unset, ExecSpec, ScriptText>>,
    <<Unset, CommandArgs, ExecSpec, ScriptText>> }

\* the steps of these runs: every operation under the modifiers that let a
\* step run first or after a failure, a skipped step for two of them, and
\* continueOnError on an exec and on a script step
RunProfiles ==
  { OpStep(Unset, w, FALSE, FALSE, o[1], o[2], o[3], o[4]) :
      w \in {Unset, "onError", "always"}, o \in Operations }
    \cup { OpStep(Unset, Unset, TRUE, FALSE, Unset, Unset, Unset, Unset),
           OpStep(Unset, Unset, TRUE, FALSE, Unset, Unset, ExecSpec, ScriptText),
           OpStep(Unset, Unset, FALSE, TRUE, Unset, Unset, ExecSpec, Unset),
           OpStep(Unset, Unset, FALSE, TRUE, Unset, Unset, Unset, ScriptText) }

RunStepLists == UNION { [0..(n - 1) -> RunProfiles] : n \in 1..MaxRunSteps }

\* a command resource with steps is about to be loaded
InitRun ==
  /\ steps \in RunStepLists
  /\ stepErrors = NoErrors
  /\ index = 0
  /\ pc = "load"
  /\ resultSteps = NoResults
  /\ events = <<>>
  /\ storeEntries = FALSE
  /\ initSaveLogState = FALSE
  /\ dropped = {}
  /\ dropResult = "none"
  /\ outcomes = NoOutcomes
  /\ contexts = NoContexts
  /\ NoCaller
  /\ ResolverIdle

\* getCustomCommands validates the resource with the steps key open to any
\* value; CustomCommandWrapper.action hands this.spec.steps to executeSteps
GetCustomCommands ==
  /\ pc = "load"
  /\ joiAny(steps)
  /\ pc' = "loop"
  /\ UNCHANGED <<steps, stepErrors, index, resultSteps, events, storeEntries,
                 initSaveLogState, dropped, dropResult, outcomes, contexts>>
  /\ UNCHANGED <<callVars, resolverVars>>

NextRun ==
  \/ GetCustomCommands
  \/ DropStep
  \/ SkipStep
  \/ StartStep
  \/ MissingAction
  \/ RunStepCommand
  \/ RunStepExec
  \/ RunStepScript
  \/ Return

SpecRun == InitRun /\ [][NextRun]_vars

\* ---------------------------------------------------------------- properties

\* the callbacks fired so far
Fired == { events[k] : k \in 1..Len(events) }

\* the loop has decided what to do with step i
Reached(i) == i < index \/ (i = index /\ pc \in {"running", "thrown", "returned"})

\* step i got a StepResult and onStepSkipped without running
SkippedWithRecord(i) ==
  /\ <<"onStepSkipped", i>> \in Fired
  /\ getStepName(i, steps[i].name) \in DOMAIN resultSteps
  /\ resultSteps[getStepName(i, steps[i].name)] = StepResult(i + 1, "{}", "")

\* step i went on to be processed (it was neither dropped nor skipped)
Processed(i) == <<"onStepProcessing", i>> \in Fired

\* the steps before i whose `when` is not onError and that have an errors entry
QualifyingBefore(i) ==
  {j \in DOMAIN steps : j < i /\ steps[j].when # "onError" /\ j \in DOMAIN stepErrors}

\* all steps whose `when` is not onError and that have an errors entry
QualifyingFailures ==
  {j \in DOMAIN steps : steps[j].when # "onError" /\ j \in DOMAIN stepErrors}

Max(S) == CHOOSE m \in S : \A x \in S : x <= m

\* a step whose `when` is neither onError nor never
IsNormal(i) == steps[i].when \notin {"onError", "never"}

\* C1: a step whose `when` is onSuccess or unset is dropped exactly when, on
\* reaching it, an earlier step with `when` other than onError has an errors
\* entry; otherwise it is skipped with a record (skip) or goes on to be processed
C1_OnSuccessDroppedIffPriorFailure ==
  \A i \in DOMAIN steps :
    (Reached(i) /\ steps[i].when \in {Unset, "onSuccess"}) =>
      /\ (i \in dropped) <=> (QualifyingBefore(i) # {})
      /\ (i \notin dropped) =>
           IF steps[i].skip THEN SkippedWithRecord(i) /\ ~Processed(i)
           ELSE Processed(i)

C1_Witness ==
  \E i, k \in DOMAIN steps :
    /\ i < k /\ Reached(k)
    /\ steps[i].when = "onSuccess" /\ steps[k].when = "onSuccess"
    /\ Processed(i) /\ i \in DOMAIN stepErrors
    /\ k \in dropped

\* C2: an onError step right after a failed step whose `when` is neither
\* onError nor never is not dropped, wherever the failing step sits
C2_OnErrorRightAfterFailureRuns ==
  ( /\ pc = "called"
    /\ index >= 1
    /\ steps[index].when = "onError"
    /\ IsNormal(index - 1)
    /\ (index - 1) \in DOMAIN stepErrors ) => dropResult = FALSE

\* C3: an onError step is dropped when no step with `when` other than onError
\* has a recorded error
C3_OnErrorDroppedWithoutFailure ==
  ( /\ pc = "called"
    /\ steps[index].when = "onError"
    /\ QualifyingFailures = {} ) => dropResult = TRUE

C3_Witness ==
  /\ pc = "called"
  /\ steps[index].when = "onError"
  /\ QualifyingFailures = {}
  /\ \E j \in DOMAIN stepErrors : j < index
  /\ dropResult = TRUE

\* C4: a step with `when: always` is never dropped, whatever the errors map
C4_AlwaysNeverDropped ==
  (pc = "called" /\ steps[index].when = "always") => dropResult = FALSE

C4_Witness ==
  /\ pc = "called"
  /\ steps[index].when = "always"
  /\ QualifyingBefore(index) # {}
  /\ dropResult = FALSE

\* C5: a step with `when: never` is always dropped, whatever the errors map
C5_NeverAlwaysDropped ==
  (pc = "called" /\ steps[index].when = "never") => dropResult = TRUE

C5_Witness ==
  /\ pc = "called"
  /\ steps[index].when = "never"
  /\ stepErrors = NoErrors
  /\ dropResult = TRUE

\* C6: an onError step right after an onError step that was not dropped is
\* not dropped either
C6_ConsecutiveOnErrorChain ==
  \A i \in DOMAIN steps :
    ( /\ i >= 1
      /\ Reached(i)
      /\ steps[i].when = "onError"
      /\ steps[i - 1].when = "onError"
      /\ (i - 1) \notin dropped ) => i \notin dropped

C6_Witness ==
  \E i \in DOMAIN steps :
    /\ i >= 1
    /\ steps[i].when = "onError" /\ steps[i - 1].when = "onError"
    /\ Processed(i - 1) /\ (i - 1) \in DOMAIN stepErrors
    /\ Processed(i)

\* C7: with f the latest failed step whose `when` is not onError, an onError
\* step at i is dropped when an onError step p and a later step q that is
\* neither onError nor never lie between f and i
C7_ChainClosedByNormalStep ==
  ( /\ pc = "called"
    /\ steps[index].when = "onError"
    /\ QualifyingFailures # {}
    /\ \E p, q \in DOMAIN steps :
         /\ Max(QualifyingFailures) < p /\ p < q /\ q < index
         /\ steps[p].when = "onError"
         /\ IsNormal(q) ) => dropResult = TRUE

C7_Witness ==
  /\ pc = "called"
  /\ steps[index].when = "onError"
  /\ QualifyingFailures # {}
  /\ Max(QualifyingFailures) >= 1
  /\ \E p, q \in DOMAIN steps :
       /\ Max(QualifyingFailures) < p /\ p < q /\ q < index
       /\ steps[p].when = "onError"
       /\ IsNormal(q)
  /\ dropResult = TRUE

\* C8: an onError step is dropped only if no earlier step with `when` other
\* than onError has failed, or a step that is neither onError nor never ran
\* (was not itself dropped) after the latest such failure
C8_OnErrorDroppedOnlyIfHandled ==
  \A i \in DOMAIN steps :
    (steps[i].when = "onError" /\ i \in dropped) =>
      \/ QualifyingBefore(i) = {}
      \/ \E q \in DOMAIN steps :
           /\ Max(QualifyingBefore(i)) < q /\ q < i
           /\ IsNormal(q)
           /\ q \notin dropped

C10_AlwaysStepsRun ==
  pc = "returned" =>
    \A i \in DOMAIN steps :
      steps[i].when = "always" => (Processed(i) \/ SkippedWithRecord(i))

\* the result an operation that came back leaves for step i
RunResult(i) == StepResult(i + 1, "out", "log")

\* the operation of step i returned an outcome with errors
ReturnedErrors(i) == i \in DOMAIN outcomes /\ outcomes[i] = "errors"

\* the operation of step i raised an exception that the catch block handled
Raised(i) == i \in DOMAIN outcomes /\ outcomes[i] \in {"resolveThrows", "runThrows"}

\* C11: when an operation returns errors and continueOnError is false, the
\* errors are recorded at the step's index, the StepResult is recorded, and the
\* loop goes on to the next index
C11_ReturnedErrorsRecordedLoopContinues ==
  \A i \in DOMAIN steps :
    (ReturnedErrors(i) /\ ~steps[i].continueOnError) =>
      /\ i \in DOMAIN stepErrors
      /\ stepErrors[i] = RunErrors
      /\ getStepName(i, steps[i].name) \in DOMAIN resultSteps
      /\ resultSteps[getStepName(i, steps[i].name)] = RunResult(i)
      /\ index > i
      /\ (pc = "returned" /\ index = i + 1) =>
           (index = StepCount(steps) \/ index \in DOMAIN outcomes)

C11_Witness ==
  \E i \in DOMAIN steps :
    /\ ReturnedErrors(i) /\ ~steps[i].continueOnError
    /\ i + 1 \in DOMAIN steps
    /\ steps[i + 1].when = "onError"
    /\ Processed(i + 1)

\* C12 as claimed: every index in the errors map belongs to a step whose
\* continueOnError is not true
C12_NoErrorsEntryForContinueOnError ==
  \A i \in DOMAIN stepErrors : ~steps[i].continueOnError

\* C12 as amended: an index in the errors map belongs to a step whose
\* continueOnError is not true, or to a step whose exception the catch block recorded
C12_ErrorsEntryNotAbsorbedOrRaised ==
  \A i \in DOMAIN stepErrors :
    \/ ~steps[i].continueOnError
    \/ (Raised(i) /\ stepErrors[i] = Exception)

C12_Witness ==
  \E i \in DOMAIN steps :
    /\ steps[i].continueOnError
    /\ ReturnedErrors(i)
    /\ i \notin DOMAIN stepErrors
    /\ pc = "returned"

\* the failures before k were all absorbed by continueOnError
OnlyAbsorbedFailuresBefore(k) ==
  \A j \in DOMAIN outcomes :
    j < k => (outcomes[j] = "ok" \/ (outcomes[j] = "errors" /\ steps[j].continueOnError))

\* C13: a continueOnError step that returns errors leaves the loop where a
\* success would have left it (nothing but the callback differs), so later
\* normal steps are not dropped and later onError steps are not run because of it
C13_AbsorbedFailureLikeSuccess ==
  /\ [](\A k \in DOMAIN steps :
          (Reached(k) /\ OnlyAbsorbedFailuresBefore(k)) =>
            /\ steps[k].when \in {Unset, "onSuccess"} => k \notin dropped
            /\ steps[k].when = "onError" => k \in dropped)
  /\ [][ ( /\ pc = "running"
           /\ steps[index].continueOnError
           /\ index \in DOMAIN outcomes'
           /\ outcomes'[index] = "errors" ) =>
             /\ stepErrors' = stepErrors
             /\ index' = index + 1
             /\ pc' = "loop"
             /\ resultSteps' = (getStepName(index, steps[index].name) :> RunResult(index))
                                 @@ resultSteps
             /\ steps' = resolveStepTemplates(steps, index, ScriptText)
             /\ UNCHANGED <<dropped, contexts>> ]_vars

C13_Witness ==
  \E i, k \in DOMAIN steps :
    /\ i < k
    /\ steps[i].continueOnError /\ ReturnedErrors(i)
    /\ OnlyAbsorbedFailuresBefore(k)
    /\ steps[k].when = "onSuccess"
    /\ Processed(k)

\* the loop is done with step i
Done(i) == i < index \/ (i = index /\ pc \in {"thrown", "returned"})

\* step i was explicitly skipped, or its operation came back with an outcome
ProducedResult(i) ==
  \/ <<"onStepSkipped", i>> \in Fired
  \/ (i \in DOMAIN outcomes /\ outcomes[i] \in {"ok", "errors"})

\* the entries of result.steps that step i produced
ResultsOf(i) == {n \in DOMAIN resultSteps : resultSteps[n].number = i + 1}

\* no two steps have the same step name
DistinctNames ==
  \A i, j \in DOMAIN steps :
    i # j => getStepName(i, steps[i].name) # getStepName(j, steps[j].name)

C15_ResultCountAndNumbers ==
  /\ Cardinality(DOMAIN resultSteps) <= StepCount(steps)
  /\ \A n \in DOMAIN resultSteps :
       \E i \in DOMAIN steps :
         /\ ProducedResult(i)
         /\ getStepName(i, steps[i].name) = n
         /\ resultSteps[n].number = i + 1

C15_Witness ==
  /\ pc = "returned"
  /\ "a" \in DOMAIN resultSteps
  /\ resultSteps["a"].number = 2
  /\ Cardinality(DOMAIN resultSteps) = 2
  /\ StepCount(steps) = 3

\* the default names, written out
DefaultNames == <<"step-1", "step-2", "step-3", "step-4", "step-5", "step-6">>

\* the key the claim gives step i
ExpectedName(i) ==
  IF steps[i].name = Unset \/ steps[i].name = "" THEN DefaultNames[i + 1] ELSE steps[i].name

\* C16: a step without name, or with the empty name, is keyed step-<i+1> in
\* result.steps and in allStepNames, a named step by its name
C16_StepKeys ==
  /\ \A i \in DOMAIN steps :
       (ProducedResult(i) /\ Done(i)) => ExpectedName(i) \in DOMAIN resultSteps
  /\ \A n \in DOMAIN resultSteps : \E i \in DOMAIN steps : ExpectedName(i) = n
  /\ \A N \in DOMAIN contexts :
       /\ contexts[N].stepName = ExpectedName(N)
       /\ contexts[N].allStepNames = [i \in DOMAIN steps |-> ExpectedName(i)]

C16_Witness ==
  /\ pc = "returned"
  /\ StepCount(steps) = 3
  /\ steps[0].name = "a" /\ steps[1].name = "" /\ steps[2].name = Unset
  /\ DOMAIN resultSteps = {"a", "step-2", "step-3"}
  /\ DOMAIN contexts = {0, 1, 2}

\* C17: a kept step with skip true records a StepResult with empty outputs and
\* log, its operation is never run, no error is recorded for it, and the skip
\* leaves the errors map as it was for the steps that follow
C17_SkipRecordsEmptyResult ==
  /\ [](\A i \in DOMAIN steps :
          (Reached(i) /\ steps[i].skip /\ i \notin dropped) =>
            /\ SkippedWithRecord(i)
            /\ ~Processed(i)
            /\ i \notin DOMAIN outcomes
            /\ i \notin DOMAIN contexts
            /\ i \notin DOMAIN stepErrors
            /\ index > i)
  /\ [][ (InLoop /\ steps[index].skip /\ index' = index + 1 /\ index \notin dropped') =>
           /\ stepErrors' = stepErrors
           /\ pc' = "loop"
           /\ UNCHANGED <<steps, outcomes, contexts, storeEntries>> ]_vars

C17_Witness ==
  \E i, j, k \in DOMAIN steps :
    /\ i < j /\ j < k
    /\ ReturnedErrors(i) /\ i \in DOMAIN stepErrors
    /\ steps[j].skip /\ steps[j].when = "always" /\ SkippedWithRecord(j)
    /\ steps[k].when = "onError" /\ Processed(k)

\* C18: with pairwise distinct step names, the context built for step N holds,
\* for every earlier step that has a StepResult, the StepResult that result.steps
\* holds for it from then on, the returned result included
C18_ContextSeesFinalResults ==
  DistinctNames =>
    \A N \in DOMAIN contexts :
      \A i \in DOMAIN steps :
        (i < N /\ getStepName(i, steps[i].name) \in DOMAIN resultSteps) =>
          LET n == getStepName(i, steps[i].name)
          IN  /\ n \in DOMAIN contexts[N].resolvedSteps
              /\ contexts[N].resolvedSteps[n] = resultSteps[n]
              /\ contexts[N].steps[n] = WorkflowStepContext(resultSteps[n])

C18_Witness ==
  /\ DistinctNames
  /\ pc = "returned"
  /\ StepCount(steps) = 3
  /\ DOMAIN contexts = {0, 1, 2}
  /\ DOMAIN contexts[2].resolvedSteps = {getStepName(0, steps[0].name), getStepName(1, steps[1].name)}
  /\ Cardinality(DOMAIN resultSteps) = 3

\* C19 as claimed: in the context built for a step, the step's own name and the
\* names of all later steps are ErrorContext entries
C19_SelfAndLaterUnreadable ==
  \A N \in DOMAIN contexts :
    \A j \in DOMAIN steps :
      j >= N =>
        /\ getStepName(j, steps[j].name) \in DOMAIN contexts[N].steps
        /\ contexts[N].steps[getStepName(j, steps[j].name)].kind = "ErrorContext"

\* C19 as amended: the same for step lists with pairwise distinct step names
C19_SelfAndLaterUnreadableIfDistinct ==
  DistinctNames => C19_SelfAndLaterUnreadable

C19_Witness ==
  /\ DistinctNames
  /\ StepCount(steps) = 3
  /\ 1 \in DOMAIN contexts
  /\ contexts[1].resolvedSteps # NoResults
  /\ pc = "running"

\* the operation of step i has been started and has not come back
InProgress(i) ==
  /\ Processed(i)
  /\ i \notin DOMAIN outcomes
  /\ <<"onStepError", i>> \notin Fired

\* the loop has finished with step i
Finished(i) ==
  \/ i \in dropped
  \/ <<"onStepSkipped", i>> \in Fired
  \/ i \in DOMAIN outcomes

\* C20: at most one operation is in progress, it is the one of the loop index,
\* and every step that was started found all earlier steps finished; callbacks
\* come in increasing index order
C20_OneStepAtATime ==
  /\ Cardinality({i \in DOMAIN steps : InProgress(i)}) <= 1
  /\ \A j \in DOMAIN steps :
       InProgress(j) => (pc = "running" /\ index = j)
  /\ \A j \in DOMAIN steps :
       Processed(j) => \A i \in DOMAIN steps : i < j => Finished(i)
  /\ \A a, b \in 1..Len(events) : a < b => events[a][2] <= events[b][2]

C20_Witness ==
  \E i, j \in DOMAIN steps :
    /\ i < j
    /\ i \in DOMAIN outcomes
    /\ InProgress(j)

\* C21 as claimed: an entry of result.steps, once inserted, keeps its value in
\* every later step of the loop
C21_EntryNeverReplaced ==
  [][\A n \in DOMAIN resultSteps :
       n \in DOMAIN resultSteps' /\ resultSteps'[n] = resultSteps[n]]_vars

\* C21 as amended: the same for step lists with pairwise distinct step names
C21_EntryNeverReplacedIfDistinct ==
  [][DistinctNames =>
       \A n \in DOMAIN resultSteps :
         n \in DOMAIN resultSteps' /\ resultSteps'[n] = resultSteps[n]]_vars

C21_Witness ==
  /\ DistinctNames
  /\ pc = "returned"
  /\ \E i, j, k \in DOMAIN steps :
       /\ i < j /\ j < k
       /\ SkippedWithRecord(i)
       /\ getStepName(j, steps[j].name) \in DOMAIN resultSteps
       /\ resultSteps[getStepName(j, steps[j].name)] = RunResult(j)
       /\ getStepName(k, steps[k].name) \in DOMAIN resultSteps
       /\ resultSteps[getStepName(k, steps[k].name)] = RunResult(k)

\* C22: when executeSteps has returned or thrown, every field of every step of
\* the caller's list is what it was at the call
C22_StepsUnchanged ==
  pc \in {"returned", "thrown"} => steps = before.steps

\* C23: outside the processing of a step, and after executeSteps has returned
\* or thrown, the capture flag of the log root is what it was at the call
C23_StoreEntriesRestored ==
  pc # "running" => storeEntries = before.storeEntries

\* the error e is in the errors of the command result, as it is or wrapped
Carried(e) ==
  \E k \in 1..Len(commandResult[1].errors) :
    \/ commandResult[1].errors[k].message = e
    \/ \E w \in 1..Len(commandResult[1].errors[k].wrappedErrors) :
         commandResult[1].errors[k].wrappedErrors[w] = e

PastProviders == pc \in {"needsGraph", "tasks", "resolved", "rejected"}

\* the resolver has passed its test of needsGraph
PastGraph == pc \in {"tasks", "resolved", "rejected"}

\* the resolver has come to its end
ResolverDone == pc \in {"resolved", "rejected"}

\* C25: a call with a scan result without references resolves no provider,
\* materializes no graph, submits no task and returns all-empty results, at
\* every call of a run
C25_NoReferencesNoWork ==
  /\ (pc # "idle" /\ ~needs.hasReferences) =>
       /\ effects = NoEffects
       /\ pc \in {"resolveProviders", "needsGraph", "resolved"}
       /\ pc = "resolved" =>
            resolved = << [graph |-> FALSE, providers |-> {}, modules |-> {},
                           results |-> <<>>, executedActions |-> <<>>] >>
  /\ \A c \in 1..Len(history) :
       ~history[c].hasReferences =>
         /\ history[c].effects = [resolveProviders |-> 0, getConfigGraph |-> 0, processTasks |-> 0]
         /\ history[c].returned

C25_Witness ==
  /\ Len(history) = 1
  /\ ~history[1].hasReferences
  /\ pc = "resolved"
  /\ ~needs.hasReferences
  /\ Len(templateValue) = 2

\* the providers the scan result names
NamedProviders == { needs.providers[k] : k \in 1..Len(needs.providers) }

\* C27: when the scan result names the providers P, exactly the providers in
\* P are resolved and returned; when it names none, none is resolved
C27_ExactlyReferencedProviders ==
  /\ PastProviders =>
       IF NamedProviders = {} THEN effects.resolveProviders = <<>>
       ELSE /\ Len(effects.resolveProviders) = 1
            /\ effects.resolveProviders[1] = NamedProviders
  /\ pc = "resolved" => resolved[1].providers = NamedProviders

\* C28: a call materializes the graph at most once, and does so exactly when
\* the scan result names a module or an action
C28_GraphOnceIffModuleOrAction ==
  /\ effects.getConfigGraph <= 1
  /\ \A c \in 1..Len(history) : history[c].effects.getConfigGraph <= 1
  /\ pc \in {"resolveProviders", "needsGraph"} => effects.getConfigGraph = 0
  /\ PastGraph =>
       (effects.getConfigGraph = 1 <=> (Len(needs.modules) > 0 \/ Len(needs.actions) > 0))
  /\ pc = "resolved" => (resolved[1].graph <=> effects.getConfigGraph = 1)

C28_Witness ==
  /\ pc = "resolved"
  /\ Len(needs.providers) > 0
  /\ Len(needs.modules) > 0
  /\ Len(needs.actions) > 0
  /\ effects.getConfigGraph = 1

\* the tasks the call has submitted, batch after batch
SubmittedTasks ==
  IF effects.processTasks = <<>> THEN <<>> ELSE effects.processTasks[1].tasks

\* the task is one of the action the reference names
TaskOf(task, ref) == task.kind = ref.kind /\ task.name = ref.name

\* the key path of the reference names an output the registry lists for the
\* (kind, type) of the action
NamesStaticOutput(ref) ==
  /\ Len(ref.keyPath) >= 2
  /\ ref.keyPath[1] = "outputs"
  /\ ref.keyPath[2] \in getStaticOutputKeys(ref.kind, getActionByRef(ref).type)

\* the task type the claim gives a reference
TypeFor(ref) == IF NamesStaticOutput(ref) THEN "resolve" ELSE "execute"

\* C29: every submitted task is of a referenced action and of the type the
\* key path of one of its references asks for, and every reference has its
\* task: execute when the key path names no static output, resolve otherwise
C29_TasksOnlyForReferencedActions ==
  ResolverDone =>
    /\ \A t \in 1..Len(SubmittedTasks) :
         \E r \in 1..Len(needs.actions) :
           /\ TaskOf(SubmittedTasks[t], needs.actions[r])
           /\ SubmittedTasks[t].type = TypeFor(needs.actions[r])
    /\ \A r \in 1..Len(needs.actions) :
         \E t \in 1..Len(SubmittedTasks) :
           /\ TaskOf(SubmittedTasks[t], needs.actions[r])
           /\ SubmittedTasks[t].type = TypeFor(needs.actions[r])

C29_Witness ==
  /\ pc = "resolved"
  /\ Len(needs.actions) = 2
  /\ SubmittedTasks = << Task("execute", [kind |-> "Deploy", name |-> "db"]),
                         Task("resolve", [kind |-> "Build", name |-> "api"]) >>

\* the tasks submitted for the action of a reference, and those of one type
TasksFor(ref) == {t \in 1..Len(SubmittedTasks) : TaskOf(SubmittedTasks[t], ref)}
TasksOfType(ref, type) == {t \in TasksFor(ref) : SubmittedTasks[t].type = type}
\* the references to the action of a reference, and those asking for one type
RefsTo(ref) ==
  {r \in 1..Len(needs.actions) :
     needs.actions[r].kind = ref.kind /\ needs.actions[r].name = ref.name}
RefsOfType(ref, type) == {r \in RefsTo(ref) : TypeFor(needs.actions[r]) = type}

\* C30 as claimed: every referenced action has exactly one submitted task
C30_OneTaskPerDistinctAction ==
  ResolverDone =>
    \A r \in 1..Len(needs.actions) : Cardinality(TasksFor(needs.actions[r])) = 1

\* C30 as amended: every reference has its own task, so an action has as many
\* execute tasks as references by a key path that is not static, as many
\* resolve tasks as references by a static one, all in one submission
C30_OneTaskPerReference ==
  ResolverDone =>
    /\ Len(effects.processTasks) <= 1
    /\ Len(SubmittedTasks) = Len(needs.actions)
    /\ \A r \in 1..Len(needs.actions) :
         /\ Cardinality(TasksOfType(needs.actions[r], "execute"))
              = Cardinality(RefsOfType(needs.actions[r], "execute"))
         /\ Cardinality(TasksOfType(needs.actions[r], "resolve"))
              = Cardinality(RefsOfType(needs.actions[r], "resolve"))

C30_Witness ==
  /\ pc = "resolved"
  /\ Len(needs.actions) = 3
  /\ \A r \in 1..3 : needs.actions[r].name = "db"
  /\ Cardinality(TasksOfType(needs.actions[1], "execute")) = 2
  /\ Cardinality(TasksOfType(needs.actions[1], "resolve")) = 1

\* what the scanner finds in the templates of step i alone
StepNeeds(i) == scanTemplateReferences(ScriptLookups(before.steps[i].script))

\* the providers, modules and actions a scan result names
Entities(n) ==
  { <<"provider", n.providers[k]>> : k \in 1..Len(n.providers) }
    \cup { <<"module", n.modules[k]>> : k \in 1..Len(n.modules) }
    \cup { <<n.actions[k].kind, n.actions[k].name>> : k \in 1..Len(n.actions) }

\* the providers resolved, the modules fetched and the actions given a task
\* in the run so far
Touched ==
  { <<"provider", q>> : q \in ProvidersOf(effects) }
    \cup { <<"module", m>> : m \in IF PastGraph \/ effects.getConfigGraph > 0
                                    THEN getModules(needs.modules) ELSE {} }
    \cup { <<SubmittedTasks[t].kind, SubmittedTasks[t].name>> : t \in 1..Len(SubmittedTasks) }

\* step i was explicitly skipped
Skipped(i) == <<"onStepSkipped", i>> \in Fired

\* executeSteps has been called
InExecuteSteps == pc \in {"loop", "running", "returned", "thrown", "done"}

C31_SubmitAtMostOnce ==
  /\ Len(effects.processTasks) <= 1
  /\ \A c \in 1..Len(history) : history[c].effects.processTasks <= 1
  /\ \A b \in 1..Len(effects.processTasks) :
       /\ effects.processTasks[b].throwOnError
       /\ effects.processTasks[b].tasks # <<>>
       /\ effects.processTasks[b].tasks =
            [k \in 1..Len(actionsToExecute(needs.actions)) |->
               Task("execute", getActionByRef(actionsToExecute(needs.actions)[k]))]
              \o [k \in 1..Len(actionsToResolve(needs.actions)) |->
                    Task("resolve", getActionByRef(actionsToResolve(needs.actions)[k]))]
  /\ ResolverDone => (Len(effects.processTasks) = 1 <=> Len(needs.actions) > 0)

C31_Witness ==
  /\ pc = "resolved"
  /\ Len(needs.modules) > 0
  /\ Len(needs.actions) = 0
  /\ effects.getConfigGraph = 1
  /\ effects.processTasks = <<>>
  /\ Len(history) = 1
  /\ history[1].effects.processTasks = 1

\* C32: when a submitted task fails the resolver returns nothing, and in a
\* custom command the run ends there: no step context is built, no step is
\* run, skipped or dropped, and no command result is produced
C32_TaskFailureAbortsResolution ==
  /\ [](pc = "rejected" =>
          /\ resolved = <<>>
          /\ Len(effects.processTasks) = 1
          /\ contexts = NoContexts
          /\ events = <<>>
          /\ outcomes = NoOutcomes
          /\ resultSteps = NoResults
          /\ dropped = {}
          /\ index = 0
          /\ commandResult = <<>>)
  /\ [][pc = "rejected" => pc' = "rejected"]_vars

C32_Witness ==
  /\ pc = "rejected"
  /\ caller = "custom"
  /\ effects.resolveProviders # <<>>
  /\ Len(SubmittedTasks) = 2

\* the namespaces whose lookups need resolution
ResolvableNamespaces == {"providers", "modules", "runtime", "actions"}

\* the lookups of the scanned value in namespace ns that have a second segment
LookupsIn(ns) == {k \in 1..Len(templateValue) : templateValue[k][1] = ns /\ Len(templateValue[k]) >= 2}

\* the same, the second segment being a non-empty string
NamedLookupsIn(ns) == {k \in LookupsIn(ns) : templateValue[k][2] # ""}

EventsOf(name, i) == {k \in 1..Len(events) : events[k] = <<name, i>>}

\* the positions of the callbacks that end the processing of step i
Endings(i) == EventsOf("onStepComplete", i) \cup EventsOf("onStepError", i)

\* C37: every step announced by onStepProcessing gets exactly one of
\* onStepComplete and onStepError, after the announcement, before any callback
\* of a later step and before executeSteps ends, also when its operation
\* resolves to an empty value; a skipped step gets onStepSkipped alone
C37_ProcessingAlwaysEnded ==
  \A i \in DOMAIN steps :
    /\ Processed(i) =>
         /\ Cardinality(EventsOf("onStepProcessing", i)) = 1
         /\ Cardinality(Endings(i)) <= 1
         /\ Done(i) => Cardinality(Endings(i)) = 1
         /\ \A k \in Endings(i) : \A p \in EventsOf("onStepProcessing", i) : p < k
         /\ \A k \in 1..Len(events) :
              events[k][2] > i => \E e \in Endings(i) : e < k
    /\ Skipped(i) => \A k \in 1..Len(events) :
                       events[k][2] = i => events[k][1] = "onStepSkipped"

\* C38: the drop predicate is asked before the skip flag is looked at: a
\* dropped step, skip or not, leaves no StepResult, no errors entry, no
\* callback and no step context; a skipped step gets no step context and no
\* onStepProcessing
C38_DropBeforeSkip ==
  \A i \in DOMAIN steps :
    Reached(i) =>
      /\ (steps[i].skip /\ steps[i].when = Unset /\ QualifyingBefore(i) # {}) => i \in dropped
      /\ i \in dropped =>
           /\ \A n \in DOMAIN resultSteps : resultSteps[n].number # i + 1
           /\ i \notin DOMAIN stepErrors
           /\ i \notin DOMAIN contexts
           /\ \A k \in 1..Len(events) : events[k][2] # i
      /\ Skipped(i) =>
           /\ i \notin dropped
           /\ i \notin DOMAIN contexts
           /\ ~Processed(i)

C38_Witness ==
  /\ pc = "returned"
  /\ \E i, j \in DOMAIN steps :
       /\ steps[i].skip /\ i \in dropped
       /\ steps[j].skip /\ Skipped(j)

\* in the context built for step N, every name of the step list has an entry:
\* the StepResult of that name when resolvedSteps has one, an ErrorContext otherwise
EntriesFollowResolvedSteps(N) ==
  \A j \in DOMAIN steps :
    LET name == getStepName(j, steps[j].name)
    IN  /\ name \in DOMAIN contexts[N].steps
        /\ IF name \in DOMAIN contexts[N].resolvedSteps
           THEN contexts[N].steps[name] = WorkflowStepContext(contexts[N].resolvedSteps[name])
           ELSE contexts[N].steps[name].kind = "ErrorContext"

\* in the context built for step N, the name of every dropped earlier step is
\* an ErrorContext entry
DroppedNamesUnreadable(N) ==
  \A d \in dropped :
    d < N =>
      /\ getStepName(d, steps[d].name) \in DOMAIN contexts[N].steps
      /\ contexts[N].steps[getStepName(d, steps[d].name)].kind = "ErrorContext"

\* C39 as claimed: every step context has one entry per step name, resolved
\* exactly when the name is a key of resolvedSteps, and the name of a dropped
\* earlier step is an ErrorContext entry
C39_OneEntryPerName ==
  \A N \in DOMAIN contexts : EntriesFollowResolvedSteps(N) /\ DroppedNamesUnreadable(N)

\* C39 as amended: the entries follow resolvedSteps for every step list; the
\* name of a dropped earlier step is an ErrorContext entry when the step names
\* are pairwise distinct
C39_OneEntryPerNameDroppedIfDistinct ==
  \A N \in DOMAIN contexts :
    /\ EntriesFollowResolvedSteps(N)
    /\ DistinctNames => DroppedNamesUnreadable(N)

C39_Witness ==
  /\ DistinctNames
  /\ \E N \in DOMAIN contexts :
       /\ \E d \in dropped : d < N
       /\ contexts[N].resolvedSteps # NoResults

\* C40: executeSteps returns or throws in the end, and on the way the loop
\* index only moves forward one entry at a time: every turn of the loop with
\* the drop predicate asked either takes the next entry or starts the step,
\* a started step comes back once, and no step is announced twice
C40_Terminates ==
  /\ <>(pc \in {"returned", "thrown"})
  /\ [][/\ pc \notin {"returned", "thrown"}
        /\ index' \in {index, index + 1}
        /\ (pc = "loop" /\ pc' = "loop") => index' = index + 1
        /\ (pc = "loop" /\ index' = index) =>
             pc' \in {"running", "thrown", "returned"}
        /\ pc = "running" =>
             \/ pc' = "loop" /\ index' = index + 1
             \/ pc' \in {"returned", "thrown"} /\ index' = index]_vars
  /\ [](\A i \in DOMAIN steps :
          /\ Cardinality(EventsOf("onStepProcessing", i)) <= 1
          /\ i \in dropped => ~Processed(i))

C40_Witness ==
  /\ pc = "returned"
  /\ StepCount(steps) = 3
  /\ index = 3
  /\ dropped # {}
  /\ \E i \in DOMAIN steps : Processed(i) /\ i \in DOMAIN outcomes

\* step i has more than one of its operation variants set
MultipleVariants(i) ==
  Cardinality({variant \in {"command", "exec", "script"} :
                 IF variant = "command"
                 THEN Truthy(steps[i].command) \/ Truthy(steps[i].gardenCommand)
                 ELSE Truthy(steps[i][variant])}) > 1

\* C34: a step with more than one operation variant set is rejected: it is
\* never announced as processing and none of its operations is run
C34_MultipleVariantsRejected ==
  \A i \in DOMAIN steps :
    MultipleVariants(i) =>
      /\ ~Processed(i)
      /\ i \notin DOMAIN outcomes

\* C35: a step without operation that is reached and neither dropped nor
\* skipped makes executeSteps throw there, with no StepResult, no errors entry
\* and no run for it and nothing done for a later step; dropped or skipped,
\* it raises nothing
C35_MissingOperationThrows ==
  \A i \in DOMAIN steps :
    (~hasStepAction(steps[i]) /\ Reached(i)) =>
      /\ i \notin DOMAIN stepErrors
      /\ i \notin DOMAIN outcomes
      /\ IF i \in dropped \/ Skipped(i)
         THEN /\ ~(pc = "thrown" /\ index = i)
              /\ <<"onStepError", i>> \notin Fired
         ELSE /\ pc = "thrown"
              /\ index = i
              /\ \A n \in DOMAIN resultSteps : resultSteps[n].number # i + 1
              /\ \A k \in 1..Len(events) : events[k][2] <= i
              /\ \A j \in DOMAIN steps :
                   j > i => (j \notin dropped /\ j \notin DOMAIN contexts /\ j \notin DOMAIN outcomes)

C35_Witness ==
  /\ pc = "thrown"
  /\ ~hasStepAction(steps[index])
  /\ index = 1
  /\ ~hasStepAction(steps[0])
  /\ Skipped(0)

\* the run of step i was an exec or a script whose process exited non-zero
ExitedNonZero(i) ==
  /\ i \in DOMAIN outcomes
  /\ outcomes[i].runner \in {"runStepExec", "runStepScript"}
  /\ outcomes[i].exitCode \notin {0, Undefined}

\* C36: a non-zero exit of an exec or script step is an outcome, not an
\* exception: the step has its StepResult with the exit code (and stdout and
\* stderr for a script), onStepError is called, the errors are recorded unless
\* continueOnError, and the loop goes on to the later steps, whose always
\* steps are not dropped
C36_NonZeroExitIsAnOutcome ==
  \A i \in DOMAIN steps :
    ExitedNonZero(i) =>
      /\ ~outcomes[i].threw
      /\ getStepName(i, steps[i].name) \in DOMAIN resultSteps
      /\ resultSteps[getStepName(i, steps[i].name)].number = i + 1
      /\ resultSteps[getStepName(i, steps[i].name)].outputs.exitCode = outcomes[i].exitCode
      /\ outcomes[i].runner = "runStepScript" =>
           {"stdout", "stderr"} \subseteq DOMAIN resultSteps[getStepName(i, steps[i].name)].outputs
      /\ outcomes[i].runner = "runStepExec" =>
           "command" \in DOMAIN resultSteps[getStepName(i, steps[i].name)].outputs
      /\ <<"onStepError", i>> \in Fired
      /\ (i \in DOMAIN stepErrors) <=> ~steps[i].continueOnError
      /\ index > i
      /\ (pc \in {"returned", "thrown"} /\ index < StepCount(steps)) =>
           \/ pc = "thrown" /\ ~hasStepAction(steps[index])
           \/ index \in DOMAIN outcomes /\ outcomes[index].threw
      /\ \A j \in DOMAIN steps :
           (j > i /\ Reached(j) /\ steps[j].when = "always") => Processed(j)

C36_Witness ==
  /\ pc = "returned"
  /\ index = 2
  /\ ExitedNonZero(0)
  /\ outcomes[0].runner = "runStepScript"
  /\ steps[1].when = "onError"
  /\ Processed(1)
  /\ ExitedNonZero(1)
  /\ outcomes[1].runner = "runStepExec"

====
